---------------------------- MODULE Spec2Model ----------------------------
(***************************************************************************)
(* Model of the two apex-utils command line tools:                         *)
(*   ApexSOQLExtractor.py  scans .cls files for SOQL / SOSL / DML          *)
(*   SOQLExplainPlan.py    cleans each query and asks the org to explain   *)
(* Text is modelled as a sequence of one-character strings, and the        *)
(* regular expressions of the source are run by a backtracking matcher     *)
(* with Python's priorities (leftmost match, greedy / lazy repetition,     *)
(* alternatives in order).                                                 *)
(***************************************************************************)
EXTENDS Integers, Sequences, FiniteSets, TLC

VARIABLES
    \* ---- SOQLExplainPlan.clean_soql applied to one string
    cpc,            \* "idle" | "input" | "cleaned"
    soql_in,        \* the argument of clean_soql
    soql_out,       \* its return value
    \* ---- SOQLExplainPlan.run
    pc,             \* where run() is: "idle" | "start" | "authed" | "reading" |
                    \* "rows_done" | "csv_written" | "done" | "exit1" | "crashed"
    access_token,   \* self.access_token
    instance_url,   \* self.instance_url
    exit_code,      \* the process's exit status once it has ended
    input_opened,   \* whether open(self.input_csv) has been called
    output_rows,    \* process_csv's output_rows
    html_rows,      \* process_csv's html_rows
    csv_file,       \* the rows written to self.output_csv, or NotWritten
    html_file,      \* the rows written to self.html_output, or NotWritten
    auth_calls,     \* history: the calls of get_auth_details
    requests,       \* history: the explain requests issued, in order
    \* ---- ApexSOQLExtractor.run
    xpc,            \* where run() is: "idle" | "walking" | "done"
    folder,         \* the files os.walk yields, in order: [name, content]
    fidx,           \* how many of them process_folder has visited
    details,        \* what extract_details_from_file returned for the last .cls file
    records,        \* process_folder's records
    rec_file,       \* history: rec_file[k] is the index in folder of the file
                    \* records[k] comes from
    extract_csv     \* the records written to self.output_csv, or NotWritten

cleanVars == <<cpc, soql_in, soql_out>>
explainVars == <<pc, access_token, instance_url, exit_code, input_opened,
                 output_rows, html_rows, csv_file, html_file, auth_calls, requests>>
extractVars == <<xpc, folder, fidx, details, records, rec_file, extract_csv>>
vars == <<cleanVars, explainVars, extractVars>>

-----------------------------------------------------------------------------
(* Bounds of the model *)

\* number of fragments a clean_soql argument is built from
MaxCleanFrags == 4
\* number of rows the input CSV of the explainer holds at most
MaxRows == 2
\* number of fragments the text of a file is built from
MaxFrags == 3
\* number of files a folder of several files holds at most
MaxFiles == 2

-----------------------------------------------------------------------------
(* Characters *)

LowerLetters == <<"a", "b", "c", "d", "e", "f", "g", "h", "i", "j", "k", "l", "m", "n", "o", "p", "q", "r", "s", "t", "u", "v", "w", "x", "y", "z">>
UpperLetters == <<"A", "B", "C", "D", "E", "F", "G", "H", "I", "J", "K", "L", "M", "N", "O", "P", "Q", "R", "S", "T", "U", "V", "W", "X", "Y", "Z">>
Range(s) == {s[i] : i \in DOMAIN s}
Letters == Range(LowerLetters) \cup Range(UpperLetters)
Digits == {"0", "1", "2", "3", "4", "5", "6", "7", "8", "9"}
\* \s of module re, and the characters str.split() / str.strip() treat as blank
Space == {" ", "\n", "\t"}
\* \w of module re
WordChars == Letters \cup Digits \cup {"_"}
Punct == {"[", "]", ":", ";", "'", "\"", "@", "{", "}", ",", ".", "(", ")", "=", "-", "|"}
\* every character a modelled text may hold
Chars == WordChars \cup Space \cup Punct

\* str.lower() on one character
LowerChar(c) ==
    IF c \in Range(UpperLetters)
    THEN LowerLetters[CHOOSE i \in DOMAIN UpperLetters : UpperLetters[i] = c]
    ELSE c
\* str.lower()
Lower(s) == [i \in DOMAIN s |-> LowerChar(s[i])]

\* the texts of booleans
S_true == <<"t", "r", "u", "e">>
S_false == <<"f", "a", "l", "s", "e">>
S_False == <<"F", "a", "l", "s", "e">>
S_TRUE == <<"T", "R", "U", "E">>

-----------------------------------------------------------------------------
(* Regular expressions: a pattern is a sequence of alternatives, each a    *)
(* sequence of items; an item is a character class with a quantifier       *)
(* ("one", "star", "plus", "lazystar", "lazyplus") or the assertion \b     *)
(* ("wordb").                                                              *)

\* a literal character under re.IGNORECASE
Lit(ch) == [q |-> "one", cls |-> {c \in Chars : LowerChar(c) = LowerChar(ch)}]
\* a literal word under re.IGNORECASE
LitWord(w) == [i \in DOMAIN w |-> Lit(w[i])]
Rep(cls, q) == [q |-> q, cls |-> cls]
WordB == [q |-> "wordb", cls |-> {}]
\* '.' with and without re.DOTALL
DotAll == Chars
DotLine == Chars \ {"\n"}

\* \b at position p (between t[p-1] and t[p])
IsBoundary(t, p) ==
    LET before == p > 1 /\ p - 1 <= Len(t) /\ t[p - 1] \in WordChars
        after == p <= Len(t) /\ t[p] \in WordChars
    IN before # after

\* length of the longest run of characters of cls starting at t[p]
RunLen(cls, t, p) ==
    LET stops == {q \in p..Len(t) : t[q] \notin cls}
    IN IF stops = {} THEN (IF p <= Len(t) THEN Len(t) - p + 1 ELSE 0)
       ELSE (CHOOSE q \in stops : \A r \in stops : q <= r) - p

\* What a repetition settles on: ends holds <<j, e>> for every run length j,
\* e the position after the rest of the items matched behind a run of j
\* characters (0 when they do not match). A greedy repetition takes the
\* longest run the rest matches behind, a lazy one the shortest.
Settle(q, ends) ==
    LET ok == {e \in ends : e[2] # 0}
    IN IF ok = {} THEN 0
       ELSE IF q \in {"star", "plus"}
       THEN (CHOOSE e \in ok : \A o \in ok : o[1] <= e[1])[2]
       ELSE (CHOOSE e \in ok : \A o \in ok : e[1] <= o[1])[2]

\* Items k.. of an alternative matched at position p of t, by backtracking:
\* the position after the match, or 0 when there is none.
RECURSIVE MatchFrom(_, _, _, _)
MatchFrom(items, k, t, p) ==
    IF k > Len(items) THEN p
    ELSE IF items[k].q = "wordb"
    THEN IF IsBoundary(t, p) THEN MatchFrom(items, k + 1, t, p) ELSE 0
    ELSE IF items[k].q = "one"
    THEN IF p <= Len(t) /\ t[p] \in items[k].cls
         THEN MatchFrom(items, k + 1, t, p + 1) ELSE 0
    ELSE Settle(items[k].q,
                {<<j, MatchFrom(items, k + 1, t, p + j)>> :
                    j \in (IF items[k].q \in {"plus", "lazyplus"} THEN 1 ELSE 0)
                          ..RunLen(items[k].cls, t, p)})

\* r when the alternative matched (r # 0), else what the next ones give
OrElse(r, others) == IF r # 0 THEN r ELSE others

\* the first alternative (from a on) that matches at p: position after it, or 0
RECURSIVE MatchAt(_, _, _, _)
MatchAt(pat, a, t, p) ==
    IF a > Len(pat) THEN 0
    ELSE OrElse(MatchFrom(pat[a], 1, t, p), MatchAt(pat, a + 1, t, p))

\* the leftmost of the attempts that matched, or NoMatch
NoMatch == [start |-> 0, end |-> 0]
Leftmost(attempts) ==
    LET hits == {m \in attempts : m.end # 0}
    IN IF hits = {} THEN NoMatch
       ELSE CHOOSE m \in hits : \A o \in hits : m.start <= o.start

\* pattern.search(t, from): the leftmost match as [start, end) or NoMatch
Search(pat, t, from) ==
    Leftmost({[start |-> p, end |-> MatchAt(pat, 1, t, p)] : p \in from..(Len(t) + 1)})

\* pattern.finditer(t): the non-overlapping matches, left to right
\* (none of the patterns of the source matches the empty string)
RECURSIVE FindIterFrom(_, _, _)
\* the match m, then the matches behind it
FindIterNext(pat, t, m) ==
    IF m = NoMatch THEN <<>>
    ELSE <<m>> \o FindIterFrom(pat, t, IF m.end > m.start THEN m.end ELSE m.end + 1)
FindIterFrom(pat, t, from) == FindIterNext(pat, t, Search(pat, t, from))
FindIter(pat, t) == FindIterFrom(pat, t, 1)

\* match.group(0)
Group0(t, m) == SubSeq(t, m.start, m.end - 1)
\* the text of each of the matches ms
Groups(t, ms) == [j \in DOMAIN ms |-> Group0(t, ms[j])]
\* pattern.findall(t), for a pattern with at most one group that spans it
FindAll(pat, t) == Groups(t, FindIter(pat, t))

\* re.sub(pat, '', t): t without its matches
RECURSIVE CutMatches(_, _, _)
CutMatches(t, ms, from) ==
    IF ms = <<>> THEN SubSeq(t, from, Len(t))
    ELSE SubSeq(t, from, Head(ms).start - 1) \o CutMatches(t, Tail(ms), Head(ms).end)
ReSubEmpty(pat, t) == CutMatches(t, FindIter(pat, t), 1)

-----------------------------------------------------------------------------
(* str methods *)

\* s.lstrip(chars) / s.rstrip(chars) / s.strip(chars)
RECURSIVE LStrip(_, _)
LStrip(s, cs) == IF s # <<>> /\ Head(s) \in cs THEN LStrip(Tail(s), cs) ELSE s
RECURSIVE RStrip(_, _)
RStrip(s, cs) ==
    IF s # <<>> /\ s[Len(s)] \in cs THEN RStrip(SubSeq(s, 1, Len(s) - 1), cs) ELSE s
Strip(s, cs) == RStrip(LStrip(s, cs), cs)

-----------------------------------------------------------------------------
(* SOQLExplainPlan.clean_soql *)

S_WITH == <<"W", "I", "T", "H">>
Brackets == {"[", "]"}

\* r'\s+WITH\s+[^\]]+' with re.IGNORECASE
with_pattern ==
    << <<Rep(Space, "plus")>> \o LitWord(S_WITH)
       \o <<Rep(Space, "plus"), Rep(Chars \ {"]"}, "plus")>> >>

\* one bracket removed at each end instead of all of them
strip_one_bracket(soql) ==
    LET a == IF soql # <<>> /\ Head(soql) \in Brackets THEN Tail(soql) ELSE soql
    IN IF a # <<>> /\ a[Len(a)] \in Brackets THEN SubSeq(a, 1, Len(a) - 1) ELSE a

\* soql.strip('[]')
strip_brackets(soql) == Strip(soql, Brackets)

\* re.sub(r'\s+WITH\s+[^\]]+', '', soql, flags=re.IGNORECASE).strip()
remove_with(soql) == Strip(ReSubEmpty(with_pattern, soql), Space)

clean_soql(soql) == remove_with(strip_brackets(soql))

-----------------------------------------------------------------------------
(* Inputs *)

\* every concatenation of at most n fragments of F
RECURSIVE Concats(_, _)
Concats(F, n) ==
    IF n = 0 THEN {<<>>}
    ELSE LET S == Concats(F, n - 1) IN S \cup {s \o f : s \in S, f \in F}

CleanFrags == { <<"[">>, <<"]">>, <<"a">>, <<" ">>, <<" ", "w", "i", "t", "h", " ", "s">> }
CleanInputs == Concats(CleanFrags, MaxCleanFrags)

-----------------------------------------------------------------------------
(* More str methods *)

\* ' '.join(s.split()): blank runs collapsed, none at either end
RECURSIVE Collapse(_)
Collapse(s) ==
    IF s = <<>> THEN <<>>
    ELSE IF Head(s) \in Space THEN <<" ">> \o Collapse(LStrip(s, Space))
    ELSE <<Head(s)>> \o Collapse(Tail(s))
SplitJoin(s) == Collapse(Strip(s, Space))

\* sep.join(list)
RECURSIVE Join(_, _)
Join(sep, list) ==
    IF list = <<>> THEN <<>>
    ELSE IF Len(list) = 1 THEN list[1]
    ELSE list[1] \o sep \o Join(sep, Tail(list))

\* s.count(ch)
RECURSIVE Count(_, _)
Count(s, ch) ==
    IF s = <<>> THEN 0 ELSE (IF Head(s) = ch THEN 1 ELSE 0) + Count(Tail(s), ch)

\* s.endswith(suffix)
EndsWith(s, suffix) ==
    Len(s) >= Len(suffix) /\ SubSeq(s, Len(s) - Len(suffix) + 1, Len(s)) = suffix

\* a < b and a <= b on lower-case words, as Python compares str
CharOrd(c) == CHOOSE i \in DOMAIN LowerLetters : LowerLetters[i] = c
RECURSIVE StrLess(_, _)
StrLess(a, b) ==
    IF b = <<>> THEN FALSE
    ELSE IF a = <<>> THEN TRUE
    ELSE IF Head(a) # Head(b) THEN CharOrd(Head(a)) < CharOrd(Head(b))
    ELSE StrLess(Tail(a), Tail(b))
StrLessEq(a, b) == a = b \/ StrLess(a, b)

\* sorted(x.lower() for x in S), S a set of str
RECURSIVE SortedLower(_)
SortedLower(S) ==
    IF S = {} THEN <<>>
    ELSE LET x == CHOOSE x \in S : \A y \in S : StrLessEq(Lower(x), Lower(y))
         IN <<Lower(x)>> \o SortedLower(S \ {x})

-----------------------------------------------------------------------------
(* ApexSOQLExtractor: the patterns of __init__ *)

S_SELECT == <<"S", "E", "L", "E", "C", "T">>
S_FIND == <<"F", "I", "N", "D">>
S_IN == <<"I", "N">>
S_ALL == <<"A", "L", "L">>
S_FIELDS == <<"F", "I", "E", "L", "D", "S">>
S_RETURNING == <<"R", "E", "T", "U", "R", "N", "I", "N", "G">>
S_insert == <<"i", "n", "s", "e", "r", "t">>
S_update == <<"u", "p", "d", "a", "t", "e">>
S_delete == <<"d", "e", "l", "e", "t", "e">>
S_upsert == <<"u", "p", "s", "e", "r", "t">>
S_merge == <<"m", "e", "r", "g", "e">>
S_atIsTest == <<"@", "i", "s", "T", "e", "s", "t">>
S_class == <<"c", "l", "a", "s", "s">>
S_isTest == <<"i", "s", "T", "e", "s", "t">>
S_dotcls == <<".", "c", "l", "s">>
S_True == <<"T", "r", "u", "e">>
S_soslsep == <<" ", "|", " ">>
S_commasp == <<",", " ">>

\* r'\[\s*SELECT.*?\]' with re.IGNORECASE | re.DOTALL
soql_pattern ==
    << <<Lit("["), Rep(Space, "star")>> \o LitWord(S_SELECT)
       \o <<Rep(DotAll, "lazystar"), Lit("]")>> >>

\* r'FIND\s+[\'"].+?[\'"]\s+IN\s+ALL\s+FIELDS\s+RETURNING.+?;'
\* with re.IGNORECASE | re.DOTALL
Quotes == {"'", "\""}
sosl_pattern ==
    << LitWord(S_FIND)
       \o <<Rep(Space, "plus"), Rep(Quotes, "one"), Rep(DotAll, "lazyplus"),
            Rep(Quotes, "one"), Rep(Space, "plus")>>
       \o LitWord(S_IN) \o <<Rep(Space, "plus")>>
       \o LitWord(S_ALL) \o <<Rep(Space, "plus")>>
       \o LitWord(S_FIELDS) \o <<Rep(Space, "plus")>>
       \o LitWord(S_RETURNING) \o <<Rep(DotAll, "lazyplus"), Lit(";")>> >>

\* r'\b(insert|update|delete|upsert|merge)\b' with re.IGNORECASE: the
\* alternatives of the group in order, each between the two \b
DmlWords == <<S_insert, S_update, S_delete, S_upsert, S_merge>>
dml_pattern == [a \in DOMAIN DmlWords |-> <<WordB>> \o LitWord(DmlWords[a]) \o <<WordB>>]

\* the pattern compiled with re.DOTALL as the other two are
test_class_pattern_dotall ==
    << LitWord(S_atIsTest),
       LitWord(S_class)
       \o <<Rep(Space, "plus"), Rep(WordChars, "plus"), Rep(Space, "plus"),
            Rep(DotAll, "star")>>
       \o LitWord(S_isTest) >>

\* r'@isTest|class\s+\w+\s+.*isTest' with re.IGNORECASE (no re.DOTALL)
test_class_pattern ==
    << LitWord(S_atIsTest),
       LitWord(S_class)
       \o <<Rep(Space, "plus"), Rep(WordChars, "plus"), Rep(Space, "plus"),
            Rep(DotLine, "star")>>
       \o LitWord(S_isTest) >>

-----------------------------------------------------------------------------
(* ApexSOQLExtractor.extract_details_from_file *)

\* the line the match ends on instead of the line it starts on
line_number_at_match_end(content, m) == Count(SubSeq(content, 1, m.end - 1), "\n") + 1

\* content[:start_pos].count('\n') + 1
line_number(content, m) == Count(SubSeq(content, 1, m.start - 1), "\n") + 1

\* the (soql_query, line_number) pair appended for the match m
soql_result(content, m) ==
    [soql_query |-> SplitJoin(Group0(content, m)),
     line_number |-> line_number(content, m)]
\* the loop over the matches ms of soql_pattern
soql_loop(content, ms) == [j \in DOMAIN ms |-> soql_result(content, ms[j])]
\* the (soql_query, line_number) pairs, one per match of soql_pattern
soql_results(content) == soql_loop(content, FindIter(soql_pattern, content))

\* ' '.join(m.split()) for m in list
SplitJoinEach(list) == [j \in DOMAIN list |-> SplitJoin(list[j])]
\* ' | '.join(' '.join(m.split()) for m in sosl_pattern.findall(content))
sosl_combined(content) ==
    Join(S_soslsep, SplitJoinEach(FindAll(sosl_pattern, content)))

\* set(self.dml_pattern.findall(content)): the matched words as written
dml_ops(content) == Range(FindAll(dml_pattern, content))

\* ', '.join(sorted(op.lower() for op in dml_ops))
dml_ops_cleaned(content) == Join(S_commasp, SortedLower(dml_ops(content)))

\* bool(self.test_class_pattern.search(content))
is_test(content) == Search(test_class_pattern, content, 1) # NoMatch

extract_details_from_file(content) ==
    [soql_results |-> soql_results(content),
     sosl_combined |-> sosl_combined(content),
     dml_ops_cleaned |-> dml_ops_cleaned(content),
     is_test |-> is_test(content)]

-----------------------------------------------------------------------------
(* ApexSOQLExtractor.process_folder *)

\* str(b).lower()
PyStrBool(b) == IF b THEN S_True ELSE S_False
BoolText(b) == Lower(PyStrBool(b))

\* a record also for a file with SOSL or DML findings and no SOQL
file_records_or_placeholder(filename, det) ==
    IF det.soql_results = <<>> /\ (det.sosl_combined # <<>> \/ det.dml_ops_cleaned # <<>>)
    THEN <<[class_name |-> filename, start_linenumber |-> 1,
            testClass |-> BoolText(det.is_test), has_binding |-> S_false,
            soql_query |-> <<>>, sosl_query |-> det.sosl_combined,
            dml_operations |-> det.dml_ops_cleaned]>>
    ELSE [j \in DOMAIN det.soql_results |->
            [class_name |-> filename,
             start_linenumber |-> det.soql_results[j].line_number,
             testClass |-> BoolText(det.is_test),
             has_binding |-> BoolText(":" \in Range(det.soql_results[j].soql_query)),
             soql_query |-> det.soql_results[j].soql_query,
             sosl_query |-> det.sosl_combined,
             dml_operations |-> det.dml_ops_cleaned]]

\* the DML findings only on the first record of a file
file_records_dml_on_first(filename, det) ==
    [j \in DOMAIN det.soql_results |->
        [class_name |-> filename,
         start_linenumber |-> det.soql_results[j].line_number,
         testClass |-> BoolText(det.is_test),
         has_binding |-> BoolText(":" \in Range(det.soql_results[j].soql_query)),
         soql_query |-> det.soql_results[j].soql_query,
         sosl_query |-> det.sosl_combined,
         dml_operations |-> IF j = 1 THEN det.dml_ops_cleaned ELSE <<>>]]

\* the records process_folder appends for one .cls file
file_records(filename, det) ==
    [j \in DOMAIN det.soql_results |->
        [class_name |-> filename,
         start_linenumber |-> det.soql_results[j].line_number,
         testClass |-> BoolText(det.is_test),
         has_binding |-> BoolText(":" \in Range(det.soql_results[j].soql_query)),
         soql_query |-> det.soql_results[j].soql_query,
         sosl_query |-> det.sosl_combined,
         dml_operations |-> det.dml_ops_cleaned]]

\* filename.endswith(".cls")
is_cls(filename) == EndsWith(filename, S_dotcls)

-----------------------------------------------------------------------------
(* ApexSOQLExtractor: the folders scanned *)

DmlFrags ==
    { <<"I", "n", "s", "e", "r", "t">>,
      <<"I", "N", "S", "E", "R", "T">>,
      <<"d", "e", "l", "e", "t", "e">>,
      <<" ">>,
      <<"x">>,
      <<";">> }
SoqlFrags ==
    { <<"[", "s", "e", "l", "e", "c", "t">>,
      <<"]">>,
      <<"\n">>,
      <<"[", "S", "E", "L", "E", "C", "T", " ", "a", "]">>,
      <<" ", "x">>,
      <<"[", " ", "S", "e", "l", "e", "c", "t", " ", ":", "b", "\n", "]">> }
TestFrags ==
    { <<"@", "I", "s", "T", "e", "s", "t">>,
      <<"c", "l", "a", "s", "s", " ", "A", " ">>,
      <<"c", "l", "a", "s", "s", " ", "A", " ", "b">>,
      <<"\n">>,
      <<"i", "s", "T", "e", "s", "t">>,
      <<"{">>,
      <<"x">> }
MixedContents ==
    { <<"i", "n", "s", "e", "r", "t", " ", "a", ";", "\n", "F", "I", "N", "D", " ", "'", "x", "'", " ", "I", "N", " ", "A", "L", "L", " ", "F", "I", "E", "L", "D", "S", " ", "R", "E", "T", "U", "R", "N", "I", "N", "G", " ", "B", ";">>,
      <<"@", "i", "s", "T", "e", "s", "t", "\n", "[", "S", "E", "L", "E", "C", "T", " ", "a", "]", "\n", " ", "y", " ", "=", " ", "[", "s", "e", "l", "e", "c", "t", " ", "c", "\n", " ", "w", "h", "e", "r", "e", " ", "e", " ", "=", " ", ":", "f", "]", ";", " ", "d", "e", "l", "e", "t", "e", " ", "x", ";", " ", "D", "e", "l", "e", "t", "e", " ", "y", ";">>,
      <<"[", "S", "E", "L", "E", "C", "T", " ", "a", "]", " ", "u", "p", "d", "a", "t", "e", " ", "b", ";", " ", "f", "i", "n", "d", " ", "\"", "q", "\"", " ", "i", "n", " ", "a", "l", "l", " ", "f", "i", "e", "l", "d", "s", "\n", "r", "e", "t", "u", "r", "n", "i", "n", "g", " ", "c", ";">>,
      <<"c", "l", "a", "s", "s", " ", "A", " ", "i", "s", "T", "e", "s", "t", " ", "{", " ", "i", "n", "s", "e", "r", "t", " ", "x", ";", " ", "}">> }

NameA == <<"A", ".", "c", "l", "s">>
NameUpper == <<"B", ".", "C", "L", "S">>

\* the texts of a folder that holds one file
RichContents ==
    Concats(DmlFrags, MaxFrags) \cup Concats(SoqlFrags, MaxFrags)
    \cup Concats(TestFrags, MaxFrags)
\* the files of a folder that holds several
MixedFiles == [name : {NameA, NameUpper}, content : MixedContents]

RECURSIVE SeqsUpTo(_, _)
SeqsUpTo(S, n) ==
    IF n = 0 THEN {<<>>}
    ELSE LET T == SeqsUpTo(S, n - 1) IN T \cup {Append(t, x) : t \in T, x \in S}

\* what os.walk yields, in the order it yields it
Folders ==
    {<<[name |-> NameA, content |-> c]>> : c \in RichContents}
    \cup SeqsUpTo(MixedFiles, MaxFiles)

-----------------------------------------------------------------------------
(* SOQLExplainPlan: the rows of the input CSV *)

\* the texts a testClass / has_binding cell of the input CSV may hold
TestClassTexts == {S_true, S_false, S_False}
HasBindingTexts == {S_true, S_false, S_TRUE}
SoqlPlain == <<"[", "S", "E", "L", "E", "C", "T", " ", "I", "d", " ", "F", "R", "O", "M", " ", "A", "c", "c", "o", "u", "n", "t", " ", "W", "I", "T", "H", " ", "S", "E", "C", "U", "R", "I", "T", "Y", "_", "E", "N", "F", "O", "R", "C", "E", "D", "]">>
SoqlBinding == <<"[", "s", "e", "l", "e", "c", "t", " ", "I", "d", " ", "f", "r", "o", "m", " ", "C", " ", "w", "h", "e", "r", "e", " ", "n", " ", "=", " ", ":", "x", "]">>

\* a row as csv.DictReader yields it (the columns process_csv reads); the
\* query holds a bind variable unless has_binding reads "false"
InputRows ==
    {[class_name |-> "A.cls", testClass |-> tc, has_binding |-> hb,
      soql_query |-> IF hb = S_false THEN SoqlPlain ELSE SoqlBinding] :
        tc \in TestClassTexts, hb \in HasBindingTexts}

-----------------------------------------------------------------------------
(* SOQLExplainPlan: the explain service *)

NotWritten == <<"not written">>
None == "None"

\* response.json(): a dict (with or without the key 'plans'), another JSON
\* value, or ValueError for a body that is not JSON
JsonDict(plans) == [type |-> "dict", has_plans |-> TRUE, plans |-> plans]
JsonDictNoPlans == [type |-> "dict", has_plans |-> FALSE, plans |-> <<>>]
JsonList == [type |-> "list", has_plans |-> FALSE, plans |-> <<>>]
JsonValueError == [type |-> "ValueError", has_plans |-> FALSE, plans |-> <<>>]

\* the lists a 'plans' key holds, as lists of JSON strings
PlanLists == { <<"TableScan">>, <<"Index", "TableScan">> }

\* the responses requests.get may return: status_code, text and what
\* response.json() gives for that text
Responses ==
    {[status_code |-> 200, text |-> "{\"plans\": ...}", json |-> JsonDict(p)] : p \in PlanLists}
    \cup {[status_code |-> 200, text |-> "{}", json |-> JsonDictNoPlans],
          [status_code |-> 200, text |-> "[]", json |-> JsonList],
          [status_code |-> 200, text |-> "<html>", json |-> JsonValueError],
          [status_code |-> 400, text |-> "[{\"errorCode\": \"MALFORMED_QUERY\"}]", json |-> JsonList]}

\* json.dumps(v, indent=2) of a list of strings
RECURSIVE DumpItems(_)
DumpItems(v) ==
    IF Len(v) = 1 THEN "  \"" \o v[1] \o "\""
    ELSE "  \"" \o v[1] \o "\",\n" \o DumpItems(Tail(v))
json_dumps_indent2(v) == IF v = <<>> THEN "[]" ELSE "[\n" \o DumpItems(v) \o "\n]"

InvalidJson == "Invalid JSON in response"
\* f"Error: {response.status_code} - {response.text}"
ErrorText(status_code, text) == "Error: " \o ToString(status_code) \o " - " \o text

\* explain_soql returning nothing for a response that is not 200
explain_result_empty_on_error(response) ==
    IF response.status_code = 200
    THEN IF response.json.type = "dict"
         THEN json_dumps_indent2(IF response.json.has_plans THEN response.json.plans ELSE <<>>)
         ELSE InvalidJson
    ELSE ""

\* what explain_soql returns for a response
explain_result(response) ==
    IF response.status_code = 200
    THEN IF response.json.type = "dict"
         THEN json_dumps_indent2(IF response.json.has_plans THEN response.json.plans ELSE <<>>)
         ELSE InvalidJson
    ELSE ErrorText(response.status_code, response.text)

\* the comparison without .lower()
should_explain_case_sensitive(row) == row.testClass = S_false /\ row.has_binding = S_false

\* row['testClass'].lower() == 'false' and row['has_binding'].lower() == 'false'
should_explain(row) == Lower(row.testClass) = S_false /\ Lower(row.has_binding) = S_false

OutRow(row, cleaned, plan) ==
    [class_name |-> row.class_name, testClass |-> row.testClass,
     has_binding |-> row.has_binding, soql_query |-> row.soql_query,
     modified_soql |-> cleaned, explain_plan |-> plan]
HtmlRow(out) ==
    [class_name |-> out.class_name, soql_query |-> out.soql_query,
     modified_soql |-> out.modified_soql, explain_plan |-> out.explain_plan]

-----------------------------------------------------------------------------
(* SOQLExplainPlan.run *)

NoDetails ==
    [soql_results |-> <<>>, sosl_combined |-> <<>>, dml_ops_cleaned |-> <<>>,
     is_test |-> FALSE]

ExtractorIdle ==
    /\ xpc = "idle"
    /\ folder = <<>>
    /\ fidx = 0
    /\ details = NoDetails
    /\ records = <<>>
    /\ rec_file = <<>>
    /\ extract_csv = NotWritten

ExplainerIdle ==
    /\ pc = "idle"
    /\ access_token = None
    /\ instance_url = None
    /\ exit_code = None
    /\ input_opened = FALSE
    /\ output_rows = <<>>
    /\ html_rows = <<>>
    /\ csv_file = NotWritten
    /\ html_file = NotWritten
    /\ auth_calls = 0
    /\ requests = <<>>

CleanIdle ==
    /\ cpc = "idle"
    /\ soql_in = <<>>
    /\ soql_out = <<>>

InitExplainer ==
    /\ pc = "start"
    /\ access_token = None
    /\ instance_url = None
    /\ exit_code = None
    /\ input_opened = FALSE
    /\ output_rows = <<>>
    /\ html_rows = <<>>
    /\ csv_file = NotWritten
    /\ html_file = NotWritten
    /\ auth_calls = 0
    /\ requests = <<>>
    /\ CleanIdle
    /\ ExtractorIdle

\* get_auth_details: sf answers with the org's token and url
get_auth_details_ok ==
    /\ pc = "start"
    /\ auth_calls' = auth_calls + 1
    /\ access_token' = "token"
    /\ instance_url' = "https://org"
    /\ pc' = "authed"
    /\ UNCHANGED <<exit_code, input_opened, output_rows, html_rows, csv_file,
                   html_file, requests, cleanVars, extractVars>>

\* get_auth_details reporting the failure without exit(1)
get_auth_details_fail_goes_on ==
    /\ pc = "start"
    /\ auth_calls' = auth_calls + 1
    /\ pc' = "authed"
    /\ UNCHANGED <<access_token, instance_url, exit_code, input_opened, output_rows,
                   html_rows, csv_file, html_file, requests, cleanVars, extractVars>>

\* get_auth_details: sf fails or its output is not the expected JSON: exit(1)
get_auth_details_fail ==
    /\ pc = "start"
    /\ auth_calls' = auth_calls + 1
    /\ exit_code' = 1
    /\ pc' = "exit1"
    /\ UNCHANGED <<access_token, instance_url, input_opened, output_rows, html_rows,
                   csv_file, html_file, requests, cleanVars, extractVars>>

\* process_csv: open(self.input_csv), csv.DictReader
open_input ==
    /\ pc = "authed"
    /\ input_opened' = TRUE
    /\ pc' = "reading"
    /\ UNCHANGED <<access_token, instance_url, exit_code, output_rows, html_rows,
                   csv_file, html_file, auth_calls, requests, cleanVars, extractVars>>

\* one iteration of 'for row in reader' on a row that is not explained
process_row_skipped(row) ==
    /\ pc = "reading"
    /\ Len(output_rows) < MaxRows
    /\ ~should_explain(row)
    /\ output_rows' = Append(output_rows, OutRow(row, clean_soql(row.soql_query), ""))
    /\ UNCHANGED <<pc, access_token, instance_url, exit_code, input_opened, html_rows,
                   csv_file, html_file, auth_calls, requests, cleanVars, extractVars>>

\* one iteration on a row that is explained, requests.get returning a response
process_row_explained(row, response) ==
    /\ pc = "reading"
    /\ Len(output_rows) < MaxRows
    /\ should_explain(row)
    /\ LET cleaned == clean_soql(row.soql_query)
           out == OutRow(row, cleaned, explain_result(response))
       IN /\ requests' = Append(requests, [row |-> Len(output_rows) + 1, query |-> cleaned,
                                           token |-> access_token, failed |-> response.status_code # 200 \/ response.json.type # "dict"])
          /\ output_rows' = Append(output_rows, out)
          /\ html_rows' = Append(html_rows, HtmlRow(out))
    /\ UNCHANGED <<pc, access_token, instance_url, exit_code, input_opened,
                   csv_file, html_file, auth_calls, cleanVars, extractVars>>

\* one iteration on a row that is explained, requests.get raising (no connection,
\* a timeout, ...): nothing catches the exception and the process ends
process_row_raises(row) ==
    /\ pc = "reading"
    /\ Len(output_rows) < MaxRows
    /\ should_explain(row)
    /\ requests' = Append(requests, [row |-> Len(output_rows) + 1, query |-> clean_soql(row.soql_query),
                                     token |-> access_token, failed |-> TRUE])
    /\ exit_code' = 1
    /\ pc' = "crashed"
    /\ UNCHANGED <<access_token, instance_url, input_opened, output_rows, html_rows,
                   csv_file, html_file, auth_calls, cleanVars, extractVars>>

\* the reader is exhausted: the loop and the with block end
end_of_input ==
    /\ pc = "reading"
    /\ pc' = "rows_done"
    /\ UNCHANGED <<access_token, instance_url, exit_code, input_opened, output_rows,
                   html_rows, csv_file, html_file, auth_calls, requests, cleanVars, extractVars>>

\* process_csv: csv.DictWriter writes output_rows
write_csv ==
    /\ pc = "rows_done"
    /\ csv_file' = output_rows
    /\ pc' = "csv_written"
    /\ UNCHANGED <<access_token, instance_url, exit_code, input_opened, output_rows,
                   html_rows, html_file, auth_calls, requests, cleanVars, extractVars>>

\* write_html, then run() prints its two success lines and returns
write_html ==
    /\ pc = "csv_written"
    /\ html_file' = html_rows
    /\ exit_code' = 0
    /\ pc' = "done"
    /\ UNCHANGED <<access_token, instance_url, input_opened, output_rows,
                   html_rows, csv_file, auth_calls, requests, cleanVars, extractVars>>

Next ==
    \/ get_auth_details_ok
    \/ get_auth_details_fail
    \/ open_input
    \/ \E row \in InputRows : process_row_skipped(row)
    \/ \E row \in InputRows, response \in Responses : process_row_explained(row, response)
    \/ \E row \in InputRows : process_row_raises(row)
    \/ end_of_input
    \/ write_csv
    \/ write_html

Spec == InitExplainer /\ [][Next]_vars

-----------------------------------------------------------------------------
(* ApexSOQLExtractor.run *)

InitExtractor ==
    /\ xpc = "walking"
    /\ folder \in Folders
    /\ fidx = 0
    /\ details = NoDetails
    /\ records = <<>>
    /\ rec_file = <<>>
    /\ extract_csv = NotWritten
    /\ ExplainerIdle
    /\ CleanIdle

\* process_folder: os.walk yields a .cls file; it is read and its records appended
scan_cls_file ==
    /\ xpc = "walking"
    /\ fidx < Len(folder)
    /\ is_cls(folder[fidx + 1].name)
    /\ details' = extract_details_from_file(folder[fidx + 1].content)
    /\ records' = records \o file_records(folder[fidx + 1].name, details')
    /\ rec_file' = rec_file \o [j \in 1..(Len(records') - Len(records)) |-> fidx + 1]
    /\ fidx' = fidx + 1
    /\ UNCHANGED <<xpc, folder, extract_csv, explainVars, cleanVars>>

\* process_folder: os.walk yields a file whose name does not end with ".cls"
skip_other_file ==
    /\ xpc = "walking"
    /\ fidx < Len(folder)
    /\ ~is_cls(folder[fidx + 1].name)
    /\ fidx' = fidx + 1
    /\ UNCHANGED <<xpc, folder, details, records, rec_file, extract_csv,
                   explainVars, cleanVars>>

\* run: process_folder has returned; write_csv, then the summary line
extractor_write_csv ==
    /\ xpc = "walking"
    /\ fidx = Len(folder)
    /\ extract_csv' = records
    /\ xpc' = "done"
    /\ UNCHANGED <<folder, fidx, details, records, rec_file, explainVars, cleanVars>>

NextExtractor ==
    \/ scan_cls_file
    \/ skip_other_file
    \/ extractor_write_csv

SpecExtractor == InitExtractor /\ [][NextExtractor]_vars

-----------------------------------------------------------------------------
(* clean_soql on one argument *)

InitClean ==
    /\ cpc = "input"
    /\ soql_in \in CleanInputs
    /\ soql_out = <<>>
    /\ ExplainerIdle
    /\ ExtractorIdle

CallCleanSoql ==
    /\ cpc = "input"
    /\ soql_out' = clean_soql(soql_in)
    /\ cpc' = "cleaned"
    /\ UNCHANGED <<soql_in, explainVars, extractVars>>

NextClean == CallCleanSoql

SpecClean == InitClean /\ [][NextClean]_vars

-----------------------------------------------------------------------------
(* Properties of the explainer (specification Spec) *)

\* the explain requests issued for input row k
RowRequests(k) == {i \in DOMAIN requests : requests[i].row = k}
\* row k was skipped: its explain_plan is empty and no request was issued for it
Skipped(k) == output_rows[k].explain_plan = "" /\ RowRequests(k) = {}

\* C1 as stated: a row is skipped if and only if its testClass cell or its
\* has_binding cell is exactly "true", whatever text the cells hold.
C1_SkippedIffLiteralTrue ==
    \A k \in DOMAIN output_rows :
        Skipped(k) <=> (output_rows[k].testClass = S_true \/ output_rows[k].has_binding = S_true)

\* C1 amended: a row is dispatched to explain_soql (one request, a non-empty
\* explain_plan, an HTML row) if and only if both cells read "false" in any
\* letter case; every other row is skipped (empty explain_plan, no request).
C1_SkippedUnlessBothFalse ==
    \A k \in DOMAIN output_rows :
        LET r == output_rows[k]
            both_false == Lower(r.testClass) = S_false /\ Lower(r.has_binding) = S_false
        IN /\ Skipped(k) <=> ~both_false
           /\ both_false => /\ Cardinality(RowRequests(k)) = 1
                            /\ r.explain_plan # ""
                            /\ \E h \in DOMAIN html_rows : html_rows[h] = HtmlRow(r)

\* a skipped row whose cells are not "true", beside a dispatched row whose
\* testClass cell is "False"
C1_Witness ==
    /\ \E k \in DOMAIN output_rows :
          /\ output_rows[k].testClass = S_false
          /\ output_rows[k].has_binding = S_TRUE
          /\ Skipped(k)
    /\ \E k \in DOMAIN output_rows :
          /\ output_rows[k].testClass = S_False
          /\ ~Skipped(k)

\* C2: a failed explain call (a non-200 response, a body that is not the
\* expected JSON, or the request itself failing) never aborts the run: the
\* failure is stored as text in the row's explain_plan and the run goes on to
\* write every row.
C2_ExplainFailureNeverAborts ==
    /\ \A i \in DOMAIN requests :
          requests[i].failed =>
              /\ pc # "crashed"
              /\ requests[i].row \in DOMAIN output_rows
              /\ output_rows[requests[i].row].explain_plan # ""
    /\ pc = "done" => csv_file = output_rows

\* C3: get_auth_details is called exactly once, before any explain request;
\* when it fails the run ends with exit status 1 with no explain request
\* issued, the input CSV not opened and neither output file written.
C3_AuthOnceBeforeAnyExplain ==
    /\ auth_calls <= 1
    /\ pc # "start" => auth_calls = 1
    /\ requests # <<>> =>
          /\ auth_calls = 1
          /\ access_token # None
          /\ \A i \in DOMAIN requests : requests[i].token = access_token
    /\ (auth_calls = 1 /\ access_token = None) =>
          /\ pc = "exit1"
          /\ exit_code = 1
          /\ requests = <<>>
          /\ ~input_opened
          /\ output_rows = <<>>
          /\ csv_file = NotWritten
          /\ html_file = NotWritten

\* the run that ended because the credentials could not be resolved
C3_Witness == pc = "exit1" /\ auth_calls = 1 /\ access_token = None

\* the texts explain_soql can build from a plan list (the empty list when the
\* answer has no 'plans' key) / from a failed response
FormattedPlans == {json_dumps_indent2(p) : p \in PlanLists \cup {<<>>}}
ErrorTexts == {ErrorText(r.status_code, r.text) : r \in Responses}
PlainFalseRows == {k \in DOMAIN output_rows :
                      output_rows[k].testClass = S_false /\ output_rows[k].has_binding = S_false}

\* C5 as stated: the explain_plan of a processed row with testClass=false and
\* has_binding=false is never empty and is either the formatted plan JSON or
\* "Error: <code> - <body>", nothing else.
C5_PlanOrErrorOnly ==
    \A k \in PlainFalseRows :
        /\ output_rows[k].explain_plan # ""
        /\ output_rows[k].explain_plan \in FormattedPlans \cup ErrorTexts

\* C5 amended: the explain_plan of such a row is never empty and has one of
\* three forms: the formatted plan JSON, "Error: <code> - <body>", or the
\* fixed text "Invalid JSON in response" (a 200 response whose body is not a
\* JSON object).
C5_PlanErrorOrInvalidJson ==
    \A k \in PlainFalseRows :
        /\ output_rows[k].explain_plan # ""
        /\ output_rows[k].explain_plan \in FormattedPlans \cup ErrorTexts \cup {InvalidJson}

\* rows with testClass=false and has_binding=false holding each of the three forms
C5_Witness ==
    /\ \E k \in PlainFalseRows : output_rows[k].explain_plan = InvalidJson
    /\ \E k \in PlainFalseRows : output_rows[k].explain_plan \in ErrorTexts

-----------------------------------------------------------------------------
(* Properties of clean_soql (specification SpecClean) *)

\* s without one leading and one trailing bracket character
StripOneEach(s) ==
    LET a == IF s # <<>> /\ Head(s) \in Brackets THEN Tail(s) ELSE s
    IN IF a # <<>> /\ a[Len(a)] \in Brackets THEN SubSeq(a, 1, Len(a) - 1) ELSE a

\* s from its first to its last character that is not a bracket
BracketCore(s) ==
    LET keep == {i \in DOMAIN s : s[i] \notin Brackets}
    IN IF keep = {} THEN <<>>
       ELSE SubSeq(s, CHOOSE i \in keep : \A j \in keep : i <= j,
                      CHOOSE i \in keep : \A j \in keep : i >= j)

\* C6 as stated: clean_soql strips at most one leading and at most one
\* trailing bracket character; further brackets at either end are kept.
C6_StripsOneBracketPerSide ==
    cpc = "cleaned" => soql_out = remove_with(StripOneEach(soql_in))

\* C6 amended: clean_soql strips every leading and every trailing bracket
\* character: what is cleaned further is the input from its first to its last
\* non-bracket character, however many brackets stand at either end.
C6_StripsAllEdgeBrackets ==
    cpc = "cleaned" => soql_out = remove_with(BracketCore(soql_in))

\* an input with two brackets at each end, cleaned
C6_Witness ==
    /\ cpc = "cleaned"
    /\ Len(soql_in) >= 3
    /\ soql_in[1] \in Brackets /\ soql_in[2] \in Brackets
    /\ soql_in[Len(soql_in)] \in Brackets
    /\ soql_out # <<>>

-----------------------------------------------------------------------------
(* Properties of the extractor (specification SpecExtractor) *)

\* the .cls files process_folder has read so far
Scanned == {i \in 1..fidx : is_cls(folder[i].name)}
\* the file extract_details_from_file was last called on
LastScanned == CHOOSE i \in Scanned : \A j \in Scanned : j <= i
\* the indices of the records that come from file i, and the j-th of them
RecIdx(i) == {k \in DOMAIN records : rec_file[k] = i}
NthRec(i, j) == records[CHOOSE k \in RecIdx(i) : Cardinality({m \in RecIdx(i) : m <= k}) = j]

\* word w stands at position p of c, in any letter case
WordAt(c, w, p) ==
    p >= 1 /\ p + Len(w) - 1 <= Len(c) /\ Lower(SubSeq(c, p, p + Len(w) - 1)) = Lower(w)
ContainsCI(c, w) == \E p \in DOMAIN c : WordAt(c, w, p)
\* every character of c in [a, b) is in cls
AllIn(c, a, b, cls) == \A q \in a..(b - 1) : c[q] \in cls

\* the DML keywords that occur in c as whole words, in any letter case
KeywordsFound(c) ==
    {w \in Range(DmlWords) :
        \E p \in DOMAIN c :
            WordAt(c, w, p) /\ IsBoundary(c, p) /\ IsBoundary(c, p + Len(w))}

\* C4: dml_operations is the sorted, lower-case, deduplicated ", "-join of
\* the DML keywords found as whole words in any letter case; no keyword
\* appears twice.
C4_DmlSortedLowerDeduplicated ==
    Scanned # {} =>
        details.dml_ops_cleaned
            = Join(S_commasp, SortedLower(KeywordsFound(folder[LastScanned].content)))

\* C7: the start_linenumber of the j-th record of a file is 1 plus the number
\* of newline characters strictly before the opening '[' of the j-th SOQL
\* match in the file's full text.
C7_StartLineCountsNewlinesBeforeMatch ==
    \A i \in Scanned :
        LET c == folder[i].content
            ms == FindIter(soql_pattern, c)
        IN /\ Cardinality(RecIdx(i)) = Len(ms)
           /\ \A j \in DOMAIN ms :
                 /\ c[ms[j].start] = "["
                 /\ NthRec(i, j).start_linenumber
                       = 1 + Cardinality({q \in 1..(ms[j].start - 1) : c[q] = "\n"})

\* a file with two matches, the second after the first line and spanning lines
C7_Witness ==
    \E i \in Scanned :
        LET c == folder[i].content
            ms == FindIter(soql_pattern, c)
        IN /\ Len(ms) >= 2
           /\ "\n" \in Range(Group0(c, ms[2]))
           /\ NthRec(i, 2).start_linenumber > NthRec(i, 1).start_linenumber
           /\ NthRec(i, 1).start_linenumber > 1

\* c holds a '[', blanks, SELECT in any letter case and a later ']'
HasSoqlOccurrence(c) ==
    \E p \in DOMAIN c :
        /\ c[p] = "["
        /\ \E q \in (p + 1)..Len(c) :
              /\ AllIn(c, p + 1, q, Space)
              /\ WordAt(c, S_SELECT, q)
              /\ \E e \in (q + Len(S_SELECT))..Len(c) : c[e] = "]"

\* C8: a scanned .cls file contributes as many records as it has SOQL
\* matches, and none when its text has no [SELECT ...] occurrence, whatever
\* SOSL, DML or test-class markers it holds; other files contribute none.
C8_RecordsPerFileEqualSoqlMatches ==
    /\ \A i \in Scanned :
          /\ Cardinality(RecIdx(i)) = Len(FindIter(soql_pattern, folder[i].content))
          /\ ~HasSoqlOccurrence(folder[i].content) => RecIdx(i) = {}
    /\ \A k \in DOMAIN records : rec_file[k] \in Scanned
    /\ xpc = "done" => extract_csv = records

\* a scanned .cls file with SOSL and DML findings and no SOQL: no record
C8_Witness ==
    /\ Scanned # {}
    /\ details.soql_results = <<>>
    /\ details.sosl_combined # <<>>
    /\ details.dml_ops_cleaned # <<>>
    /\ RecIdx(LastScanned) = {}
    /\ xpc = "done"

\* C9: two records of the same file have the same testClass, sosl_query and
\* dml_operations, which are those of the whole text of the file.
C9_FileScopedFieldsShared ==
    /\ \A k1, k2 \in DOMAIN records :
          rec_file[k1] = rec_file[k2] =>
              /\ records[k1].testClass = records[k2].testClass
              /\ records[k1].sosl_query = records[k2].sosl_query
              /\ records[k1].dml_operations = records[k2].dml_operations
    /\ \A k \in DOMAIN records :
          LET c == folder[rec_file[k]].content
          IN /\ records[k].testClass = BoolText(is_test(c))
             /\ records[k].sosl_query = sosl_combined(c)
             /\ records[k].dml_operations = dml_ops_cleaned(c)

\* two records of one test-class file with DML, for different queries
C9_Witness ==
    \E k1, k2 \in DOMAIN records :
        /\ rec_file[k1] = rec_file[k2]
        /\ records[k1].soql_query # records[k2].soql_query
        /\ records[k1].testClass = S_true
        /\ records[k1].dml_operations # <<>>

\* c holds "class" and, after it and before any '{', the substring isTest
DeclaresIsTest(c) ==
    \E p \in DOMAIN c :
        /\ WordAt(c, S_class, p)
        /\ \E j \in (p + Len(S_class))..Len(c) :
              /\ WordAt(c, S_isTest, j)
              /\ AllIn(c, p + Len(S_class), j, Chars \ {"{"})

\* c holds "class", blanks, a word, blanks and then, with no newline in
\* between, the substring isTest
DeclaresIsTestOnLine(c) ==
    \E p \in DOMAIN c :
        /\ WordAt(c, S_class, p)
        /\ \E b \in (p + Len(S_class) + 1)..Len(c) :
              /\ AllIn(c, p + Len(S_class), b, Space)
              /\ \E e \in (b + 1)..Len(c) :
                    /\ AllIn(c, b, e, WordChars)
                    /\ \E f \in (e + 1)..Len(c) :
                          /\ AllIn(c, e, f, Space)
                          /\ \E j \in f..Len(c) :
                                /\ AllIn(c, f, j, Chars \ {"\n"})
                                /\ WordAt(c, S_isTest, j)

=============================================================================
